---- MODULE Spec2Model ----
(***************************************************************************)
(* The agent loop of the ServiceNow configuration agent                    *)
(* (run_agent in snow_agent.py, AgentWorker.run in snow_gui.py), the tool  *)
(* dispatcher (tools.py) and the response normalisation of the REST        *)
(* adapter (snow_client.py).                                               *)
(*                                                                         *)
(* Python values are written as follows.  A dict is a record (a function   *)
(* from its keys); a list is a sequence; a raised exception is the record  *)
(* Raise(msg) and a normal return is Return(v).  The history is the one    *)
(* list object that the caller and the loop share.                         *)
(***************************************************************************)
EXTENDS Integers, Sequences, FiniteSets, TLC

VARIABLES
    ui,            \* "cli": snow_agent.main + run_agent; "gui": App + AgentWorker
    history,       \* conversation_history / App.history
    pc,            \* position of the loop: idle, start, loop, await, tools, finish
    iteration,     \* run_agent's iteration / the index of range(50) in the GUI
    response,      \* the response the loop is working on (NoResponse if none)
    idx,           \* position of the tool loop in response.content
    tool_results,  \* run_agent's tool_results / AgentWorker.run's results
    busy,          \* App.busy
    callback,      \* the callback AgentWorker.run posted: none, on_done, on_error
    exit,          \* how the last turn ended: none, end_turn, unexpected, cap, fault
    turns,         \* turns started in this session
    calls,         \* model calls made in this session
    looping,       \* the model has entered a cycle of tool requests
    modelCalls,    \* model calls started in the current turn
    stops,         \* the stop signals of the responses received in the current turn
    base,          \* Len(history) when the current turn started
    events,        \* what the current pass did, in order: text, tool, exec, warning
    warnings,      \* warnings surfaced to the caller in the current turn
    sent,          \* the messages passed to the latest model call of the turn
    dispatched,    \* calls of execute_tool made in the current turn
    workers,       \* invocations of the loop running on the history
    clears,        \* times the conversation was reset in this session
    resetTurn,     \* the value of turns at the latest reset (-1 if none)
    script,        \* what the current turn was given: responses, tool results, a fault
    env,           \* the environment values that are set at startup
    boot,          \* startup: new, exited (CLI), refused (GUI), ready
    startupCalls,  \* adapter calls made by the startup code
    t_name,        \* dispatcher harness: tool name
    t_input,       \* dispatcher harness: input mapping
    t_net,         \* dispatcher harness: what the HTTP layer does
    t_sent,        \* dispatcher harness: the request the HTTP layer received
    t_out,         \* dispatcher harness: outcome of execute_tool
    h_resp,        \* response harness: the HTTP response
    h_out          \* response harness: result of _handle_response

loopVars == <<ui, history, pc, iteration, response, idx, tool_results, busy,
              callback, exit, turns, calls, looping, modelCalls, stops, base,
              events, warnings, sent, dispatched, workers, clears, resetTurn,
              script, env, boot, startupCalls>>
sessionVars == <<ui, history, pc, iteration, response, idx, tool_results,
                 busy, callback, exit, turns, calls, looping, modelCalls,
                 stops, base, events, warnings, sent, dispatched, workers,
                 clears, resetTurn, script>>
startVars == <<env, boot, startupCalls>>
toolVars == <<t_name, t_input, t_net, t_sent, t_out, h_resp, h_out>>
vars == <<loopVars, toolVars>>

(***************************************************************************)
(* Bounds of the model.                                                    *)
(***************************************************************************)
\* Model calls of a session whose response, and whose tools' outcomes, are
\* chosen freely.  Among the choices is to enter the cycle of tool requests
\* the iteration cap exists for; a model that has not entered it by then
\* completes each later call.
MaxFree == 2
\* Turns of one session.
MaxTurns == 2
\* Times the user presses 'Clear chat' in one session; the user presses it
\* while the model still answers freely.
MaxClears == 1

(***************************************************************************)
(* Python results.                                                         *)
(***************************************************************************)
Raise(msg) == [raised |-> TRUE, exc |-> msg]
Return(v) == [raised |-> FALSE, value |-> v]

\* a lookup that forgets the default: an absent key gives None
Get_NoDefault(d, key, default) == IF key \in DOMAIN d THEN d[key] ELSE [none |-> TRUE]

\* dict.get(key, default)
Get(d, key, default) == IF key \in DOMAIN d THEN d[key] ELSE default

\* str(KeyError(key))
KeyErrorStr(key) == "'" \o key \o "'"

\* d[key] for each key of keys in turn: the first missing key raises KeyError
RECURSIVE Subscript(_, _)
Subscript(d, keys) ==
    IF keys = <<>> THEN Return(d)
    ELSE IF Head(keys) \notin DOMAIN d THEN Raise(KeyErrorStr(Head(keys)))
    ELSE Subscript(d, Tail(keys))

(***************************************************************************)
(* Python and JSON values carry their type: None, bool, int, str, list,    *)
(* dict.  A text is known by its content and its length.                   *)
(***************************************************************************)
None == [none |-> TRUE]
Bool(b) == [bool |-> b]
Num(n) == [num |-> n]
Str(s) == [str |-> s]
Arr(q) == [arr |-> q]
Obj(d) == [obj |-> d]
Text(s, n) == [text |-> s, len |-> n]

IsDict(v) == "obj" \in DOMAIN v
IsNum(v) == "num" \in DOMAIN v

\* Python truthiness: `if fields:`, `if query:`, `if display_value:`
Truthy(v) ==
    CASE "none" \in DOMAIN v -> FALSE
      [] "bool" \in DOMAIN v -> v.bool
      [] "num" \in DOMAIN v -> v.num # 0
      [] "str" \in DOMAIN v -> v.str # ""
      [] "arr" \in DOMAIN v -> v.arr # <<>>
      [] "obj" \in DOMAIN v -> DOMAIN v.obj # {}
      [] OTHER -> TRUE

\* the limit passed on as it is
Min_Left(a, b) == a

\* min(a, b)
Min(a, b) == IF a <= b THEN a ELSE b

\* text[:k]
Prefix(t, k) == Text(t.text, Min(t.len, k))

(***************************************************************************)
(* snow_client.py: the REST adapter.                                       *)
(*                                                                         *)
(* What the HTTP layer does with one request is `net`: Raise(msg) for a    *)
(* transport fault (timeout, connection refused), or Return(resp) with     *)
(* resp = [status_code, decodable, json, text]: response.json() raises     *)
(* when decodable is FALSE and returns json otherwise.                     *)
(***************************************************************************)
SnippetLen == 500
AckMessage == "Operation completed (no content returned)"
HttpStr(code) == "HTTP " \o ToString(code)

\* an acknowledgement without a payload
Ack_Empty == [success |-> TRUE, data |-> Obj(<<>>)]

\* what stands for the body of a response that has none
Ack == [success |-> TRUE, data |-> Obj([message |-> Str(AckMessage)])]

_handle_response(resp) ==
    IF resp.status_code = 204
    THEN Ack
    ELSE IF resp.status_code \in {200, 201}
    THEN IF resp.decodable /\ IsDict(resp.json)
         THEN [success |-> TRUE,
               data |-> Get(resp.json.obj, "result", resp.json)]
         ELSE [success |-> TRUE, data |-> resp.text]
    ELSE LET error_msg == Str(HttpStr(resp.status_code))
             structured ==
                 /\ resp.decodable
                 /\ IsDict(resp.json)
                 /\ IsDict(Get(resp.json.obj, "error", Obj(<<>>)))
             err == Get(resp.json.obj, "error", Obj(<<>>)).obj
         IN  IF structured
             THEN [success |-> FALSE,
                   error |-> Get(err, "message", error_msg),
                   detail |-> Get(err, "detail", Str("")),
                   status_code |-> Num(resp.status_code)]
             ELSE [success |-> FALSE,
                   error |-> error_msg,
                   detail |-> Prefix(resp.text, SnippetLen),
                   status_code |-> Num(resp.status_code)]

\* requests.Session.get/post/patch/delete followed by _handle_response: the
\* request reaches the transport layer, which raises or answers.
Send(req, net) ==
    [sent |-> req,
     out |-> IF net.raised THEN net ELSE Return(_handle_response(net.value))]

\* An exception raised before any request is made.
NoRequest == [method |-> "none"]
Fails(msg) == [sent |-> NoRequest, out |-> Raise(msg)]

MaxLimit == 1000

\* ",".join(fields)
Join(fields) == [join |-> ",", of |-> fields]

\* The query string of query_records: query, then the sort directive.
FullQuery(query, order_by) ==
    IF Truthy(query)
    THEN IF Truthy(order_by)
         THEN <<[sysparm_query |-> <<query, Str("^ORDERBY"), order_by>>]>>
         ELSE <<[sysparm_query |-> <<query>>]>>
    ELSE IF Truthy(order_by)
         THEN <<[sysparm_query |-> <<Str("ORDERBY"), order_by>>]>>
         ELSE <<>>

query_records(table, query, fields, limit, offset, display_value, order_by, net) ==
    IF ~IsNum(limit) THEN Fails("TypeError")
    ELSE IF Truthy(fields) /\ "num" \in DOMAIN fields THEN Fails("TypeError")
    ELSE Send([method |-> "GET",
               path |-> <<Str("/api/now/table/"), table>>,
               sysparm_limit |-> Num(Min(limit.num, MaxLimit)),
               sysparm_offset |-> offset,
               sysparm_query |-> FullQuery(query, order_by),
               sysparm_fields |-> IF Truthy(fields) THEN <<Join(fields)>> ELSE <<>>,
               sysparm_display_value |->
                   IF Truthy(display_value) THEN <<Str("true")>> ELSE <<>>],
              net)

get_record(table, sys_id, fields, display_value, net) ==
    IF Truthy(fields) /\ "num" \in DOMAIN fields THEN Fails("TypeError")
    ELSE Send([method |-> "GET",
               path |-> <<Str("/api/now/table/"), table, Str("/"), sys_id>>,
               sysparm_fields |-> IF Truthy(fields) THEN <<Join(fields)>> ELSE <<>>,
               sysparm_display_value |->
                   IF Truthy(display_value) THEN <<Str("true")>> ELSE <<>>],
              net)

create_record(table, data, input_display_value, net) ==
    Send([method |-> "POST",
          path |-> <<Str("/api/now/table/"), table>>,
          json |-> data,
          sysparm_input_display_value |->
              IF Truthy(input_display_value) THEN <<Str("true")>> ELSE <<>>],
         net)

update_record(table, sys_id, data, input_display_value, net) ==
    Send([method |-> "PATCH",
          path |-> <<Str("/api/now/table/"), table, Str("/"), sys_id>>,
          json |-> data,
          sysparm_input_display_value |->
              IF Truthy(input_display_value) THEN <<Str("true")>> ELSE <<>>],
         net)

delete_record(table, sys_id, net) ==
    Send([method |-> "DELETE",
          path |-> <<Str("/api/now/table/"), table, Str("/"), sys_id>>],
         net)

SchemaLimit == 500
SchemaFields == Arr(<<"element", "column_label", "internal_type", "max_length",
                      "mandatory", "read_only", "reference", "default_value",
                      "comments", "active">>)

get_table_schema(table, net) ==
    query_records(Str("sys_dictionary"),
                  [fmt |-> "name={table}^active=true^elementISNOTEMPTY", table |-> table],
                  SchemaFields, Num(SchemaLimit), Num(0), Bool(TRUE), Str(""), net)

search_tables(search_term, limit, net) ==
    query_records(Str("sys_db_object"),
                  [fmt |-> "nameLIKE{t}^ORlabelLIKE{t}^super_classISNOTEMPTY",
                   t |-> search_term],
                  Arr(<<"name", "label", "super_class", "sys_scope", "is_extendable">>),
                  limit, Num(0), Bool(TRUE), Str(""), net)

get_update_sets(limit, net) ==
    query_records(Str("sys_update_set"), Str("state=in progress"),
                  Arr(<<"name", "description", "state", "sys_created_by",
                        "sys_created_on">>),
                  limit, Num(0), Bool(TRUE), Str("name"), net)

ScopesLimit == 100

get_application_scopes(net) ==
    query_records(Str("sys_scope"), Str("active=true"),
                  Arr(<<"name", "scope", "version", "active">>),
                  Num(ScopesLimit), Num(0), Bool(TRUE), Str(""), net)

(***************************************************************************)
(* tools.py: the tool catalog and the dispatcher.                          *)
(***************************************************************************)
\* a catalog that offers the model a tool the dispatcher has no branch for
TOOL_DEFINITIONS_Extra ==
    << [name |-> "query_records", required |-> <<"table">>,
        defaults |-> [limit |-> Num(10), offset |-> Num(0),
                      display_value |-> Bool(FALSE)]],
       [name |-> "get_record", required |-> <<"table", "sys_id">>,
        defaults |-> [display_value |-> Bool(FALSE)]],
       [name |-> "create_record", required |-> <<"table", "data">>,
        defaults |-> [input_display_value |-> Bool(FALSE)]],
       [name |-> "update_record", required |-> <<"table", "sys_id", "data">>,
        defaults |-> [input_display_value |-> Bool(FALSE)]],
       [name |-> "delete_record", required |-> <<"table", "sys_id">>,
        defaults |-> <<>>],
       [name |-> "get_table_schema", required |-> <<"table">>,
        defaults |-> <<>>],
       [name |-> "search_tables", required |-> <<"search_term">>,
        defaults |-> [limit |-> Num(20)]],
       [name |-> "get_update_sets", required |-> <<>>,
        defaults |-> [limit |-> Num(20)]],
       [name |-> "get_application_scopes", required |-> <<>>,
        defaults |-> <<>>],
       [name |-> "drop_table", required |-> <<"table">>,
        defaults |-> <<>>] >>

\* name, required parameters and declared defaults of each catalog entry
TOOL_DEFINITIONS ==
    << [name |-> "query_records", required |-> <<"table">>,
        defaults |-> [limit |-> Num(10), offset |-> Num(0),
                      display_value |-> Bool(FALSE)]],
       [name |-> "get_record", required |-> <<"table", "sys_id">>,
        defaults |-> [display_value |-> Bool(FALSE)]],
       [name |-> "create_record", required |-> <<"table", "data">>,
        defaults |-> [input_display_value |-> Bool(FALSE)]],
       [name |-> "update_record", required |-> <<"table", "sys_id", "data">>,
        defaults |-> [input_display_value |-> Bool(FALSE)]],
       [name |-> "delete_record", required |-> <<"table", "sys_id">>,
        defaults |-> <<>>],
       [name |-> "get_table_schema", required |-> <<"table">>,
        defaults |-> <<>>],
       [name |-> "search_tables", required |-> <<"search_term">>,
        defaults |-> [limit |-> Num(20)]],
       [name |-> "get_update_sets", required |-> <<>>,
        defaults |-> [limit |-> Num(20)]],
       [name |-> "get_application_scopes", required |-> <<>>,
        defaults |-> <<>>] >>

\* the failure names no tool
UnknownTool_NoName(tool_name) ==
    [sent |-> NoRequest,
     out |-> Return([success |-> FALSE, error |-> Str("Unknown tool")])]

\* return {"success": False, "error": f"Unknown tool: {tool_name}"}
UnknownTool(tool_name) ==
    [sent |-> NoRequest,
     out |-> Return([success |-> FALSE,
                     error |-> Str("Unknown tool: " \o tool_name)])]

\* The arguments of a call are evaluated left to right: the first inp[key]
\* of a missing key raises KeyError before the adapter is called.
_dispatch(tool_name, inp, net) ==
    LET need(keys) == Subscript(inp, keys)
    IN
    CASE tool_name = "query_records" ->
           IF need(<<"table">>).raised THEN Fails(need(<<"table">>).exc)
           ELSE query_records(inp["table"],
                              Get(inp, "query", Str("")),
                              Get(inp, "fields", None),
                              Get(inp, "limit", Num(10)),
                              Get(inp, "offset", Num(0)),
                              Get(inp, "display_value", Bool(FALSE)),
                              Get(inp, "order_by", Str("")),
                              net)
      [] tool_name = "get_record" ->
           IF need(<<"table", "sys_id">>).raised
           THEN Fails(need(<<"table", "sys_id">>).exc)
           ELSE get_record(inp["table"], inp["sys_id"],
                           Get(inp, "fields", None),
                           Get(inp, "display_value", Bool(FALSE)),
                           net)
      [] tool_name = "create_record" ->
           IF need(<<"table", "data">>).raised
           THEN Fails(need(<<"table", "data">>).exc)
           ELSE create_record(inp["table"], inp["data"],
                              Get(inp, "input_display_value", Bool(FALSE)),
                              net)
      [] tool_name = "update_record" ->
           IF need(<<"table", "sys_id", "data">>).raised
           THEN Fails(need(<<"table", "sys_id", "data">>).exc)
           ELSE update_record(inp["table"], inp["sys_id"], inp["data"],
                              Get(inp, "input_display_value", Bool(FALSE)),
                              net)
      [] tool_name = "delete_record" ->
           IF need(<<"table", "sys_id">>).raised
           THEN Fails(need(<<"table", "sys_id">>).exc)
           ELSE delete_record(inp["table"], inp["sys_id"], net)
      [] tool_name = "get_table_schema" ->
           IF need(<<"table">>).raised THEN Fails(need(<<"table">>).exc)
           ELSE get_table_schema(inp["table"], net)
      [] tool_name = "search_tables" ->
           IF need(<<"search_term">>).raised
           THEN Fails(need(<<"search_term">>).exc)
           ELSE search_tables(inp["search_term"],
                              Get(inp, "limit", Num(20)), net)
      [] tool_name = "get_update_sets" ->
           get_update_sets(Get(inp, "limit", Num(20)), net)
      [] tool_name = "get_application_scopes" ->
           get_application_scopes(net)
      [] OTHER -> UnknownTool(tool_name)

\* json.dumps(result, indent=2, default=str): the result rendered as text
Dumps(result) == [json_text |-> result]

\* execute_tool without the try: the fault of _dispatch escapes
execute_tool_Uncaught(tool_name, tool_input, net) ==
    LET out == _dispatch(tool_name, tool_input, net).out
    IN  IF out.raised THEN out ELSE Return(Dumps(out.value))

\* execute_tool that catches the faults of the HTTP layer only: the
\* KeyError of a missing parameter escapes
execute_tool_KeyErrorEscapes(tool_name, tool_input, net) ==
    LET eff == _dispatch(tool_name, tool_input, net)
    IN  IF eff.out.raised /\ eff.sent = NoRequest THEN eff.out
        ELSE IF eff.out.raised
        THEN Return(Dumps([success |-> FALSE, error |-> Str(eff.out.exc)]))
        ELSE Return(Dumps(eff.out.value))

\* execute_tool whose failure carries an empty data field as well
execute_tool_ErrorWithData(tool_name, tool_input, net) ==
    LET out == _dispatch(tool_name, tool_input, net).out
    IN  IF out.raised
        THEN Return(Dumps([success |-> FALSE, error |-> Str(out.exc),
                           data |-> None]))
        ELSE Return(Dumps(out.value))

execute_tool(tool_name, tool_input, net) ==
    LET out == _dispatch(tool_name, tool_input, net).out
    IN  IF out.raised
        THEN Return(Dumps([success |-> FALSE, error |-> Str(out.exc)]))
        ELSE Return(Dumps(out.value))

(***************************************************************************)
(* The two outside services as the loop sees them.                         *)
(***************************************************************************)
TextBlock(t) == [type |-> "text", text |-> t]
ToolUseBlock(id, name, input) ==
    [type |-> "tool_use", id |-> id, name |-> name, input |-> input]

DeleteInput == [table |-> Str("incident"), sys_id |-> Str("a1")]
\* an input that lacks the required sys_id
GetInputNoId == [table |-> Str("incident")]

\* The tool request of a model that never stops asking for tools.
Perpetual(c) ==
    [stop_reason |-> "tool_use",
     content |-> <<ToolUseBlock(<<c, 1>>, "delete_record", DeleteInput)>>]

Final == [stop_reason |-> "end_turn", content |-> <<TextBlock("Done.")>>]

\* What anthropic messages.create may return to a freely answered call,
\* number c of the session.  An identifier is unique: the call and the
\* block's place in it.
FreeResponses(c) ==
    { Final,
      [stop_reason |-> "end_turn",
       content |-> <<ToolUseBlock(<<c, 1>>, "delete_record", DeleteInput)>>],
      [stop_reason |-> "tool_use", content |-> <<>>],
      Perpetual(c),
      [stop_reason |-> "tool_use",
       content |-> <<TextBlock("Deleting."),
                     ToolUseBlock(<<c, 1>>, "get_record", GetInputNoId),
                     TextBlock(""),
                     ToolUseBlock(<<c, 2>>, "delete_record", DeleteInput)>>],
      [stop_reason |-> "max_tokens",
       content |-> <<TextBlock("Deleting."),
                     ToolUseBlock(<<c, 1>>, "delete_record", DeleteInput)>>] }

\* The service's answer to call number c: the response, and whether the
\* model is in the cycle from now on.
Answers(c, inCycle) ==
    IF inCycle THEN {[resp |-> Perpetual(c), cycle |-> TRUE]}
    ELSE IF c <= MaxFree
    THEN {[resp |-> r, cycle |-> FALSE] : r \in FreeResponses(c)}
         \cup {[resp |-> Perpetual(c), cycle |-> TRUE]}
    ELSE {[resp |-> Final, cycle |-> FALSE]}

\* messages.create may raise (connection failure, timeout, API error).
MayFault(c, inCycle) == c <= MaxFree /\ ~inCycle

Found == [status_code |-> 200, decodable |-> TRUE,
          json |-> Obj([result |-> Arr(<<Obj([sys_id |-> Str("a1")])>>)]),
          text |-> Text("{result}", 40)]
NoContent == [status_code |-> 204, decodable |-> FALSE, json |-> None,
              text |-> Text("", 0)]
NotFound == [status_code |-> 404, decodable |-> TRUE,
             json |-> Obj([error |-> Obj([message |-> Str("No Record found"),
                                          detail |-> Str("Record doesn't exist")])]),
             text |-> Text("{error}", 80)]

\* What the HTTP layer may do with a request made during call number c.
NetOutcomes(c, inCycle) ==
    IF c > MaxFree \/ inCycle THEN {Return(NoContent)}
    ELSE {Return(NoContent), Return(NotFound), Raise("Read timed out")}

UserInputs == {Str("add a priority field")}

NoResponse == [stop_reason |-> "none", content |-> <<>>]

\* the texts kept back until the loop has ended
Texts_Held(content) == <<>>

\* the texts the loop surfaces from a response: blocks that have a text
\* attribute whose text is not empty
RECURSIVE Texts(_)
Texts(content) ==
    IF content = <<>> THEN <<>>
    ELSE LET b == Head(content)
         IN  IF b.type = "text" /\ b.text # ""
             THEN <<[ev |-> "text", text |-> b.text]>> \o Texts(Tail(content))
             ELSE Texts(Tail(content))

Message(role, content) == [role |-> role, content |-> content]

\* every result of a batch tagged with the batch's first identifier
ToolResult_FirstId(block, result_str) ==
    [type |-> "tool_result", tool_use_id |-> <<block.id[1], 1>>,
     content |-> result_str]

ToolResult(block, result_str) ==
    [type |-> "tool_result", tool_use_id |-> block.id, content |-> result_str]

(***************************************************************************)
(* snow_agent.py: run_agent, called from the REPL of main.                 *)
(***************************************************************************)
max_iterations == 50

\* while True: the loop without its cap
LoopCondition_NoCap(i) == TRUE

\* the loop condition off by one
LoopCondition_OffByOne(i) == i <= max_iterations

\* while iteration < max_iterations
LoopCondition(i) == i < max_iterations

\* the response appended only when it has content
AppendAssistant_SkipEmpty(h, r) ==
    IF r.content = <<>> THEN h
    ELSE Append(h, Message("assistant", Arr(r.content)))

\* the response appended after the end_turn check, so the final one is lost
AppendAssistant_DropsFinal(h, r) ==
    IF r.stop_reason = "end_turn" THEN h
    ELSE Append(h, Message("assistant", Arr(r.content)))

\* conversation_history.append({"role": "assistant", "content": response.content})
AppendAssistant(h, r) == Append(h, Message("assistant", Arr(r.content)))

\* the loop without the break at end_turn
StopAction_NoBreak(stop_reason) ==
    IF stop_reason \in {"end_turn", "tool_use"} THEN "tools" ELSE "warn"

\* a loop that runs the tools of every response but the final one
StopAction_ToolsUnlessEnd(stop_reason) ==
    IF stop_reason = "end_turn" THEN "break" ELSE "tools"

\* What follows the printing of the texts: break at end_turn, the tool loop
\* at tool_use, otherwise the warning and break.
StopAction(stop_reason) ==
    IF stop_reason = "end_turn" THEN "break"
    ELSE IF stop_reason = "tool_use" THEN "tools"
    ELSE "warn"

\* how a turn that left the loop at a response ended
ExitOf(stop_reason) ==
    IF stop_reason = "end_turn" THEN "end_turn" ELSE "unexpected"

NotRun == [pending |-> TRUE]

LoopInit ==
    /\ ui \in {"cli", "gui"}
    /\ history = <<>>
    /\ pc = "idle"
    /\ iteration = 0
    /\ response = NoResponse
    /\ idx = 0
    /\ tool_results = <<>>
    /\ busy = FALSE
    /\ callback = "none"
    /\ exit = "none"
    /\ turns = 0
    /\ calls = 0
    /\ looping = FALSE
    /\ modelCalls = 0
    /\ stops = <<>>
    /\ base = 0
    /\ events = <<>>
    /\ warnings = 0
    /\ sent = <<>>
    /\ dispatched = 0
    /\ workers = 0
    /\ clears = 0
    /\ resetTurn = -1
    /\ script = <<>>

\* the four environment values main and App._connect look for
EnvVars == {"SNOW_INSTANCE", "SNOW_USERNAME", "SNOW_PASSWORD", "ANTHROPIC_API_KEY"}

\* The session once startup has succeeded: main has reached its REPL, the
\* GUI has its snow_client.
Init ==
    /\ LoopInit
    /\ env = EnvVars
    /\ boot = "ready"
    /\ startupCalls = (IF ui = "cli" THEN 2 ELSE 1)
    /\ t_name = ""
    /\ t_input = <<>>
    /\ t_net = Raise("")
    /\ t_sent = NoRequest
    /\ t_out = NotRun
    /\ h_resp = NoContent
    /\ h_out = NotRun

\* main reads a request and calls run_agent, which appends the user message
run_agent_begin ==
    /\ ui = "cli" /\ boot = "ready" /\ pc = "idle" /\ turns < MaxTurns
    /\ \E user_message \in UserInputs :
           history' = Append(history, Message("user", user_message))
    /\ iteration' = 0
    /\ pc' = "loop"
    /\ turns' = turns + 1
    /\ base' = Len(history)
    /\ modelCalls' = 0 /\ stops' = <<>> /\ warnings' = 0
    /\ events' = <<>>
    /\ exit' = "none"
    /\ response' = NoResponse /\ idx' = 0 /\ tool_results' = <<>>
    /\ sent' = <<>> /\ dispatched' = 0 /\ script' = <<>>
    /\ workers' = workers + 1
    /\ UNCHANGED <<ui, busy, callback, calls, looping, clears, resetTurn,
                   startVars, toolVars>>

\* while iteration < max_iterations: iteration += 1;
\* messages.create(..., messages=conversation_history)
run_agent_create ==
    /\ ui = "cli" /\ pc = "loop" /\ LoopCondition(iteration)
    /\ iteration' = iteration + 1
    /\ pc' = "await"
    /\ calls' = calls + 1
    /\ modelCalls' = modelCalls + 1
    /\ events' = <<>>
    /\ sent' = history
    /\ UNCHANGED <<ui, history, response, idx, tool_results, busy, callback,
                   exit, turns, stops, base, warnings, looping, dispatched,
                   workers, clears, resetTurn,
                   script, startVars, toolVars>>

\* a loop that catches the fault and records an empty assistant message
run_agent_fault_Partial ==
    /\ ui = "cli" /\ pc = "await" /\ MayFault(calls, looping)
    /\ pc' = "idle"
    /\ exit' = "fault"
    /\ script' = Append(script, [kind |-> "fault"])
    /\ history' = Append(history, Message("assistant", Arr(<<>>)))
    /\ workers' = workers - 1
    /\ UNCHANGED <<ui, iteration, response, idx, tool_results, busy,
                   callback, turns, calls, looping, modelCalls, stops,
                   base, events, warnings, sent, dispatched, clears, resetTurn,
                   startVars, toolVars>>

\* messages.create raises: nothing in run_agent catches it, main reports it
\* and reads the next request
run_agent_fault ==
    /\ ui = "cli" /\ pc = "await" /\ MayFault(calls, looping)
    /\ pc' = "idle"
    /\ exit' = "fault"
    /\ script' = Append(script, [kind |-> "fault"])
    /\ workers' = workers - 1
    /\ UNCHANGED <<ui, history, iteration, response, idx, tool_results, busy,
                   callback, turns, calls, looping, modelCalls, stops,
                   base, events, warnings, sent, dispatched, clears, resetTurn,
                   startVars, toolVars>>

\* messages.create returns: append, print the texts, look at stop_reason
run_agent_response ==
    /\ ui = "cli" /\ pc = "await"
    /\ \E a \in Answers(calls, looping) : LET r == a.resp IN
        /\ looping' = a.cycle
        /\ history' = AppendAssistant(history, r)
        /\ stops' = Append(stops, r.stop_reason)
        /\ response' = r
        /\ script' = Append(script, [kind |-> "response", resp |-> r])
        /\ CASE StopAction(r.stop_reason) = "break" ->
                  /\ pc' = "idle" /\ exit' = ExitOf(r.stop_reason)
                  /\ events' = Texts(r.content)
                  /\ workers' = workers - 1
                  /\ UNCHANGED <<idx, tool_results, warnings>>
             [] StopAction(r.stop_reason) = "tools" ->
                  /\ pc' = "tools" /\ idx' = 1 /\ tool_results' = <<>>
                  /\ events' = Texts(r.content)
                  /\ UNCHANGED <<exit, warnings, workers>>
             [] OTHER ->
                  /\ pc' = "idle" /\ exit' = ExitOf(r.stop_reason)
                  /\ events' = Texts(r.content) \o <<[ev |-> "warning"]>>
                  /\ warnings' = warnings + 1
                  /\ workers' = workers - 1
                  /\ UNCHANGED <<idx, tool_results>>
    /\ UNCHANGED <<ui, iteration, busy, callback, turns, calls, modelCalls,
                   base, sent, dispatched, clears, resetTurn,
                   startVars, toolVars>>

\* one pass of `for block in response.content`
run_agent_tool ==
    /\ ui = "cli" /\ pc = "tools" /\ idx <= Len(response.content)
    /\ LET block == response.content[idx]
       IN  IF block.type # "tool_use"
           THEN /\ idx' = idx + 1
                /\ UNCHANGED <<tool_results, events, pc, exit, dispatched,
                               workers, script>>
           ELSE \E net \in NetOutcomes(calls, looping) :
                  LET result_str == execute_tool(block.name, block.input, net)
                  IN  /\ dispatched' = dispatched + 1
                      /\ script' = Append(script,
                             [kind |-> "result", name |-> block.name,
                              input |-> block.input, value |-> result_str])
                      /\ IF result_str.raised
                         THEN /\ pc' = "idle" /\ exit' = "fault"
                              /\ events' = events \o
                                     <<[ev |-> "tool", id |-> block.id],
                                       [ev |-> "exec", id |-> block.id, net |-> net]>>
                              /\ workers' = workers - 1
                              /\ UNCHANGED <<idx, tool_results>>
                         ELSE /\ tool_results' =
                                     Append(tool_results,
                                            ToolResult(block, result_str.value))
                              /\ events' = events \o
                                     <<[ev |-> "tool", id |-> block.id],
                                       [ev |-> "exec", id |-> block.id, net |-> net],
                                       [ev |-> "result", id |-> block.id]>>
                              /\ idx' = idx + 1
                              /\ UNCHANGED <<pc, exit, workers>>
    /\ UNCHANGED <<ui, history, iteration, response, busy, callback, turns,
                   calls, looping, modelCalls, stops, base, warnings, sent,
                   clears, resetTurn,
                   startVars, toolVars>>

\* conversation_history.append({"role": "user", "content": tool_results})
run_agent_results ==
    /\ ui = "cli" /\ pc = "tools" /\ idx > Len(response.content)
    /\ history' = Append(history, Message("user", Arr(tool_results)))
    /\ pc' = "loop"
    /\ UNCHANGED <<ui, iteration, response, idx, tool_results, busy, callback,
                   exit, turns, calls, looping, modelCalls, stops, base,
                   events, warnings, sent, dispatched, workers, clears, resetTurn,
                   script, startVars, toolVars>>

\* the while condition fails: return conversation_history
run_agent_return ==
    /\ ui = "cli" /\ pc = "loop" /\ ~LoopCondition(iteration)
    /\ pc' = "idle"
    /\ exit' = "cap"
    /\ workers' = workers - 1
    /\ UNCHANGED <<ui, history, iteration, response, idx, tool_results, busy,
                   callback, turns, calls, looping, modelCalls, stops,
                   base, events, warnings, sent, dispatched, clears, resetTurn,
                   script, startVars, toolVars>>

(***************************************************************************)
(* run_agent as a function of the history it is called on, the user        *)
(* message and the script of what its calls do: an entry of kind           *)
(* "response" or "fault" for each messages.create, an entry of kind        *)
(* "result" for each execute_tool.  It yields the history left behind, the *)
(* number of model calls, the execute_tool calls made and the rest of the  *)
(* script; complete is FALSE when the script ends before the loop does.    *)
(***************************************************************************)
\* for block in response.content: ... tool_results.append(...)
RECURSIVE RunAgentTools(_, _, _, _)
RunAgentTools(content, scr, results, execs) ==
    IF content = <<>>
    THEN [results |-> results, execs |-> execs, rest |-> scr, complete |-> TRUE]
    ELSE LET block == Head(content)
         IN  IF block.type # "tool_use"
             THEN RunAgentTools(Tail(content), scr, results, execs)
             ELSE IF scr = <<>> \/ Head(scr).kind # "result"
             THEN [results |-> results, execs |-> execs, rest |-> scr,
                   complete |-> FALSE]
             ELSE RunAgentTools(Tail(content), Tail(scr),
                      Append(results, ToolResult(block, Head(scr).value.value)),
                      Append(execs, [name |-> block.name, input |-> block.input]))

\* One pass of the while loop: iteration += 1, messages.create, the append
\* of the response, and what stop_reason asks for.  p is the loop's state
\* before the pass; more tells whether the loop goes on to its condition
\* again.
RunAgentPass(p) ==
    IF p.rest = <<>> \/ Head(p.rest).kind = "result"
    THEN [p EXCEPT !.more = FALSE, !.complete = FALSE]
    ELSE IF Head(p.rest).kind = "fault"
    THEN [p EXCEPT !.calls = @ + 1, !.rest = Tail(@), !.more = FALSE]
    ELSE LET r == Head(p.rest).resp
             h1 == AppendAssistant(p.history, r)
             t == RunAgentTools(r.content, Tail(p.rest), <<>>, <<>>)
         IN  IF StopAction(r.stop_reason) # "tools"
             THEN [p EXCEPT !.history = h1, !.calls = @ + 1, !.rest = Tail(@),
                            !.more = FALSE]
             ELSE [history |-> IF t.complete
                               THEN Append(h1, Message("user", Arr(t.results)))
                               ELSE h1,
                   calls |-> p.calls + 1,
                   execs |-> p.execs \o t.execs,
                   rest |-> t.rest,
                   more |-> t.complete,
                   complete |-> t.complete]

\* while iteration < max_iterations: ...; return conversation_history
RECURSIVE RunAgentLoop(_)
RunAgentLoop(p) ==
    IF p.more /\ LoopCondition(p.calls) THEN RunAgentLoop(RunAgentPass(p)) ELSE p

RunAgent(h, user_message, scr) ==
    RunAgentLoop([history |-> Append(h, Message("user", user_message)),
                  calls |-> 0, execs |-> <<>>, rest |-> scr, more |-> TRUE,
                  complete |-> TRUE])

(***************************************************************************)
(* snow_gui.py: App._send starts an AgentWorker thread on App.history; the *)
(* thread reports through callbacks that run on the Tk thread.             *)
(***************************************************************************)
WorkerPasses == 50

\* a worker that gives up one pass early
InRange_FortyNine(i) == i < WorkerPasses - 1

\* for _ in range(50): i passes are done
InRange(i) == i < WorkerPasses

\* self.history.append({"role": "assistant", "content": resp.content})
WorkerAppendAssistant(h, resp) ==
    Append(h, Message("assistant", Arr(resp.content)))

\* the worker's loop without the break at end_turn
WorkerStopAction_NoBreak(stop_reason) ==
    IF stop_reason \in {"end_turn", "tool_use"} THEN "tools" ELSE "break"

\* break at end_turn, the tool loop at tool_use, otherwise break
WorkerStopAction(stop_reason) ==
    IF stop_reason = "end_turn" THEN "break"
    ELSE IF stop_reason = "tool_use" THEN "tools"
    ELSE "break"

\* App._send without `if self.busy: return`
App_send_IgnoresBusy ==
    /\ ui = "gui" /\ boot = "ready" /\ turns < MaxTurns
    /\ busy' = TRUE
    /\ pc' = "start"
    /\ turns' = turns + 1
    /\ base' = Len(history)
    /\ modelCalls' = 0 /\ stops' = <<>> /\ warnings' = 0
    /\ events' = <<>>
    /\ exit' = "none"
    /\ callback' = "none"
    /\ response' = NoResponse /\ idx' = 0 /\ tool_results' = <<>>
    /\ iteration' = 0
    /\ sent' = <<>> /\ dispatched' = 0 /\ script' = <<>>
    /\ workers' = workers + 1
    /\ UNCHANGED <<ui, history, calls, looping, clears, resetTurn,
                   startVars, toolVars>>

\* App._send: nothing happens while busy; otherwise busy is set and an
\* AgentWorker thread is started on App.history
App_send ==
    /\ ui = "gui" /\ ~busy /\ boot = "ready" /\ turns < MaxTurns
    /\ busy' = TRUE
    /\ pc' = "start"
    /\ turns' = turns + 1
    /\ base' = Len(history)
    /\ modelCalls' = 0 /\ stops' = <<>> /\ warnings' = 0
    /\ events' = <<>>
    /\ exit' = "none"
    /\ callback' = "none"
    /\ response' = NoResponse /\ idx' = 0 /\ tool_results' = <<>>
    /\ iteration' = 0
    /\ sent' = <<>> /\ dispatched' = 0 /\ script' = <<>>
    /\ workers' = workers + 1
    /\ UNCHANGED <<ui, history, calls, looping, clears, resetTurn,
                   startVars, toolVars>>

\* AgentWorker.run: self.history.append({"role": "user", ...})
Worker_begin ==
    /\ ui = "gui" /\ pc = "start"
    /\ \E content \in UserInputs :
           history' = Append(history, Message("user", content))
    /\ pc' = "loop"
    /\ UNCHANGED <<ui, iteration, response, idx, tool_results, busy, callback,
                   exit, turns, calls, looping, modelCalls, stops, base,
                   events, warnings, sent, dispatched, workers, clears, resetTurn,
                   script, startVars, toolVars>>

\* for _ in range(50): api.messages.create(..., messages=self.history)
Worker_create ==
    /\ ui = "gui" /\ pc = "loop" /\ InRange(iteration)
    /\ iteration' = iteration + 1
    /\ pc' = "await"
    /\ calls' = calls + 1
    /\ modelCalls' = modelCalls + 1
    /\ events' = <<>>
    /\ sent' = history
    /\ UNCHANGED <<ui, history, response, idx, tool_results, busy, callback,
                   exit, turns, stops, base, warnings, looping, dispatched,
                   workers, clears, resetTurn,
                   script, startVars, toolVars>>

\* a worker without the except clause: the fault ends the thread and no
\* callback is posted
Worker_fault_Silent ==
    /\ ui = "gui" /\ pc = "await" /\ MayFault(calls, looping)
    /\ pc' = "finish"
    /\ exit' = "fault"
    /\ script' = Append(script, [kind |-> "fault"])
    /\ workers' = workers - 1
    /\ UNCHANGED <<ui, history, iteration, response, idx, tool_results, busy,
                   callback, turns, calls, looping, modelCalls, stops, base,
                   events, warnings, sent, dispatched, clears, resetTurn,
                   startVars, toolVars>>

\* messages.create raises: `except Exception` posts on_error and the thread
\* ends
Worker_fault ==
    /\ ui = "gui" /\ pc = "await" /\ MayFault(calls, looping)
    /\ pc' = "finish"
    /\ callback' = "on_error"
    /\ exit' = "fault"
    /\ script' = Append(script, [kind |-> "fault"])
    /\ workers' = workers - 1
    /\ UNCHANGED <<ui, history, iteration, response, idx, tool_results, busy,
                   turns, calls, looping, modelCalls, stops, base, events,
                   warnings, sent, dispatched, clears, resetTurn,
                   startVars, toolVars>>

\* messages.create returns: append, on_text for the texts, look at
\* stop_reason; leaving the loop posts on_done and the thread ends
Worker_response ==
    /\ ui = "gui" /\ pc = "await"
    /\ \E a \in Answers(calls, looping) : LET resp == a.resp IN
        /\ looping' = a.cycle
        /\ history' = WorkerAppendAssistant(history, resp)
        /\ stops' = Append(stops, resp.stop_reason)
        /\ response' = resp
        /\ script' = Append(script, [kind |-> "response", resp |-> resp])
        /\ events' = Texts(resp.content)
        /\ IF WorkerStopAction(resp.stop_reason) = "tools"
           THEN /\ pc' = "tools" /\ idx' = 1 /\ tool_results' = <<>>
                /\ UNCHANGED <<exit, callback, workers>>
           ELSE /\ pc' = "finish" /\ exit' = ExitOf(resp.stop_reason)
                /\ callback' = "on_done"
                /\ workers' = workers - 1
                /\ UNCHANGED <<idx, tool_results>>
    /\ UNCHANGED <<ui, iteration, busy, turns, calls, modelCalls, base,
                   warnings, sent, dispatched, clears, resetTurn,
                   startVars, toolVars>>

\* one pass of `for block in resp.content`
Worker_tool ==
    /\ ui = "gui" /\ pc = "tools" /\ idx <= Len(response.content)
    /\ LET block == response.content[idx]
       IN  IF block.type # "tool_use"
           THEN /\ idx' = idx + 1
                /\ UNCHANGED <<tool_results, events, pc, exit, callback,
                               dispatched, workers, script>>
           ELSE \E net \in NetOutcomes(calls, looping) :
                  LET result == execute_tool(block.name, block.input, net)
                  IN  /\ dispatched' = dispatched + 1
                      /\ script' = Append(script,
                             [kind |-> "result", name |-> block.name,
                              input |-> block.input, value |-> result])
                      /\ IF result.raised
                         THEN /\ pc' = "finish" /\ exit' = "fault"
                              /\ callback' = "on_error"
                              /\ events' = events \o
                                     <<[ev |-> "tool", id |-> block.id],
                                       [ev |-> "exec", id |-> block.id, net |-> net]>>
                              /\ workers' = workers - 1
                              /\ UNCHANGED <<idx, tool_results>>
                         ELSE /\ tool_results' =
                                     Append(tool_results,
                                            ToolResult(block, result.value))
                              /\ events' = events \o
                                     <<[ev |-> "tool", id |-> block.id],
                                       [ev |-> "exec", id |-> block.id, net |-> net]>>
                              /\ idx' = idx + 1
                              /\ UNCHANGED <<pc, exit, callback, workers>>
    /\ UNCHANGED <<ui, history, iteration, response, busy, turns, calls, looping,
                   modelCalls, stops, base, warnings, sent, clears, resetTurn,
                   startVars, toolVars>>

\* self.history.append({"role": "user", "content": results})
Worker_results ==
    /\ ui = "gui" /\ pc = "tools" /\ idx > Len(response.content)
    /\ history' = Append(history, Message("user", Arr(tool_results)))
    /\ pc' = "loop"
    /\ UNCHANGED <<ui, iteration, response, idx, tool_results, busy, callback,
                   exit, turns, calls, looping, modelCalls, stops, base,
                   events, warnings, sent, dispatched, workers, clears, resetTurn,
                   script, startVars, toolVars>>

\* range(50) is used up: self.on_done(), and the thread ends
Worker_done ==
    /\ ui = "gui" /\ pc = "loop" /\ ~InRange(iteration)
    /\ pc' = "finish"
    /\ callback' = "on_done"
    /\ exit' = "cap"
    /\ workers' = workers - 1
    /\ UNCHANGED <<ui, history, iteration, response, idx, tool_results, busy,
                   turns, calls, looping, modelCalls, stops, base, events,
                   warnings, sent, dispatched, clears, resetTurn,
                   script, startVars, toolVars>>

\* App._agent_done, run by root.after(0, ...): _set_busy(False)
App_agent_done ==
    /\ ui = "gui" /\ pc = "finish" /\ callback = "on_done"
    /\ busy' = FALSE
    /\ callback' = "none"
    /\ pc' = "idle"
    /\ UNCHANGED <<ui, history, iteration, response, idx, tool_results, exit,
                   turns, calls, looping, modelCalls, stops, base, events,
                   warnings, sent, dispatched, workers, clears, resetTurn,
                   script, startVars, toolVars>>

\* App._agent_error, run by root.after(0, ...): _set_busy(False)
App_agent_error ==
    /\ ui = "gui" /\ pc = "finish" /\ callback = "on_error"
    /\ busy' = FALSE
    /\ callback' = "none"
    /\ pc' = "idle"
    /\ UNCHANGED <<ui, history, iteration, response, idx, tool_results, exit,
                   turns, calls, looping, modelCalls, stops, base, events,
                   warnings, sent, dispatched, workers, clears, resetTurn,
                   script, startVars, toolVars>>

Next ==
    \/ run_agent_begin
    \/ run_agent_create
    \/ run_agent_fault
    \/ run_agent_response
    \/ run_agent_tool
    \/ run_agent_results
    \/ run_agent_return
    \/ App_send
    \/ Worker_begin
    \/ Worker_create
    \/ Worker_fault
    \/ Worker_response
    \/ Worker_tool
    \/ Worker_results
    \/ Worker_done
    \/ App_agent_done
    \/ App_agent_error

Spec == Init /\ [][Next]_vars

\* The steps the program takes by itself once a turn has started: the loop
\* is one thread of control that runs on while its calls return, and the Tk
\* main loop runs the callbacks posted with root.after.
LoopStep ==
    \/ run_agent_create
    \/ run_agent_fault
    \/ run_agent_response
    \/ run_agent_tool
    \/ run_agent_results
    \/ run_agent_return
    \/ Worker_begin
    \/ Worker_create
    \/ Worker_fault
    \/ Worker_response
    \/ Worker_tool
    \/ Worker_results
    \/ Worker_done
    \/ App_agent_done
    \/ App_agent_error

\* App._clear, bound to the 'Clear chat' button, which stays enabled while
\* a worker runs: self.history.clear() empties the list the worker holds
App_clear ==
    /\ ui = "gui" /\ clears < MaxClears /\ calls <= MaxFree /\ ~looping
    /\ history' = <<>>
    /\ clears' = clears + 1
    /\ resetTurn' = turns
    /\ UNCHANGED <<ui, pc, iteration, response, idx, tool_results, busy,
                   callback, exit, turns, calls, looping, modelCalls, stops,
                   base, events, warnings, sent, dispatched, workers, script,
                   startVars, toolVars>>

\* The REPL's 'clear' command: conversation_history = [].  The REPL reads a
\* command only between two turns.
main_clear ==
    /\ ui = "cli" /\ boot = "ready" /\ pc = "idle" /\ clears < MaxClears
    /\ history' = <<>>
    /\ clears' = clears + 1
    /\ resetTurn' = turns
    /\ UNCHANGED <<ui, pc, iteration, response, idx, tool_results, busy,
                   callback, exit, turns, calls, looping, modelCalls, stops,
                   base, events, warnings, sent, dispatched, workers, script,
                   startVars, toolVars>>

NextClear ==
    \/ Next
    \/ App_clear
    \/ main_clear

\* The session in which the user may give the reset command: 'clear' at the
\* REPL's prompt, 'Clear chat' in the GUI at any moment.
SpecClear == Init /\ [][NextClear]_vars

\* Every model call and every tool call returns, and the scheduler runs
\* the thread and the posted callbacks.
SpecLive == Spec /\ WF_vars(LoopStep)

(***************************************************************************)
(* Startup: main of snow_agent.py up to its REPL, App._connect of           *)
(* snow_gui.py.  env is the set of environment values os.environ.get finds *)
(* non-empty; boot tells how far startup got: "new", "ready", or the       *)
(* failure that was reported ("missing_env", "connection_failed") or that  *)
(* ended the process ("crashed").                                          *)
(***************************************************************************)
\* missing = [v for v in (...) if not os.environ.get(v)]
MissingEnv(e) == EnvVars \ e

\* a check that overlooks the model-service credential
MissingEnv_SnowOnly(e) == {"SNOW_INSTANCE", "SNOW_USERNAME", "SNOW_PASSWORD"} \ e

\* what the transport layer does with a request made at startup
StartupOutcomes == {Return(Found), Return(NotFound), Raise("Connection refused")}

test_connection(net) ==
    query_records(Str("sys_user"), Str(""),
                  Arr(<<"user_name", "name", "email", "roles">>),
                  Num(1), Num(0), Bool(FALSE), Str(""), net)

StartInit ==
    /\ LoopInit
    /\ env \in SUBSET EnvVars
    /\ boot = "new"
    /\ startupCalls = 0
    /\ t_name = ""
    /\ t_input = <<>>
    /\ t_net = Raise("")
    /\ t_sent = NoRequest
    /\ t_out = NotRun
    /\ h_resp = NoContent
    /\ h_out = NotRun

\* main, from the environment check to the REPL: sys.exit(1) on a missing
\* value or a rejected connection; a fault of the HTTP layer is not caught.
main_start ==
    /\ ui = "cli" /\ boot = "new"
    /\ IF MissingEnv(env) # {}
       THEN boot' = "missing_env" /\ startupCalls' = 0
       ELSE \E net \in StartupOutcomes, net2 \in StartupOutcomes :
              LET test == test_connection(net).out
                  us == get_update_sets(Num(5), net2).out
              IN  IF test.raised
                  THEN boot' = "crashed" /\ startupCalls' = 1
                  ELSE IF ~test.value.success
                  THEN boot' = "connection_failed" /\ startupCalls' = 1
                  ELSE IF us.raised
                  THEN boot' = "crashed" /\ startupCalls' = 2
                  ELSE boot' = "ready" /\ startupCalls' = 2
    /\ UNCHANGED <<sessionVars, env, toolVars>>

\* App._connect with the narrower check
App_connect_SnowOnly ==
    /\ ui = "gui" /\ boot = "new"
    /\ IF MissingEnv_SnowOnly(env) # {}
       THEN boot' = "missing_env" /\ startupCalls' = 0
       ELSE \E net \in StartupOutcomes :
              LET t == test_connection(net).out
              IN  /\ startupCalls' = 1
                  /\ boot' = IF ~t.raised /\ t.value.success
                             THEN "ready" ELSE "connection_failed"
    /\ UNCHANGED <<sessionVars, env, toolVars>>

\* App._connect: self.snow_client is set only when all four values are there
\* and test_connection succeeded; every fault is caught and reported.
App_connect ==
    /\ ui = "gui" /\ boot = "new"
    /\ IF MissingEnv(env) # {}
       THEN boot' = "missing_env" /\ startupCalls' = 0
       ELSE \E net \in StartupOutcomes :
              LET t == test_connection(net).out
              IN  /\ startupCalls' = 1
                  /\ boot' = IF ~t.raised /\ t.value.success
                             THEN "ready" ELSE "connection_failed"
    /\ UNCHANGED <<sessionVars, env, toolVars>>

NextStart ==
    \/ main_start
    \/ App_connect
    \/ Next

SpecStart == StartInit /\ [][NextStart]_vars

(***************************************************************************)
(* execute_tool on its own: a tool name, an input mapping and an outcome   *)
(* of the HTTP layer are drawn, and the dispatcher is applied to them.     *)
(***************************************************************************)
ToolNames ==
    {"query_records", "get_record", "create_record", "update_record",
     "delete_record", "get_table_schema", "search_tables", "get_update_sets",
     "get_application_scopes", "drop_table", "QUERY_RECORDS", ""}

InputKeys == {"table", "sys_id", "data", "search_term", "limit"}

FullInputs ==
    { [table |-> Str("incident"), sys_id |-> Str("a1"),
       data |-> Obj([short_description |-> Str("x")]),
       search_term |-> Str("inc"), limit |-> l] :
      l \in {Num(5), Num(1000), Num(1001), Num(2000), Str("ten")} }

\* the input mappings: every choice of the keys that are given
ToolInputs == { [k \in K |-> f[k]] : K \in SUBSET InputKeys, f \in FullInputs }

ServerError == [status_code |-> 500, decodable |-> FALSE, json |-> None,
                text |-> Text("<html>", 612)]

\* The status codes a server may answer with: the three the adapter takes
\* for success, another 2xx, a redirect, a client and a server error.
Statuses == {200, 201, 202, 204, 302, 404, 500}

ErrorObject == Obj([message |-> Str("Internal error"), detail |-> Str("x")])

\* The bodies a server may answer with: what response.json() does and what
\* response.text is.
Bodies ==
    { [decodable |-> FALSE, json |-> None, text |-> Text("<html>", 612)],
      [decodable |-> FALSE, json |-> None, text |-> Text("", 0)],
      [decodable |-> TRUE,
       json |-> Obj([result |-> Arr(<<Obj([sys_id |-> Str("a1")])>>)]),
       text |-> Text("{result:[..]}", 40)],
      [decodable |-> TRUE, json |-> Obj([result |-> None]),
       text |-> Text("{result:null}", 15)],
      [decodable |-> TRUE, json |-> Obj([sys_id |-> Str("a1")]),
       text |-> Text("{sys_id}", 16)],
      [decodable |-> TRUE, json |-> Obj([error |-> ErrorObject]),
       text |-> Text("{error:{message,detail}}", 60)],
      [decodable |-> TRUE,
       json |-> Obj([error |-> Obj([message |-> Str("Internal error")])]),
       text |-> Text("{error:{message}}", 45)],
      [decodable |-> TRUE, json |-> Obj([error |-> Str("denied")]),
       text |-> Text("{error:denied}", 19)],
      [decodable |-> TRUE,
       json |-> Obj([result |-> Arr(<<>>), error |-> ErrorObject]),
       text |-> Text("{result,error}", 70)],
      [decodable |-> TRUE, json |-> Arr(<<Obj([sys_id |-> Str("a1")])>>),
       text |-> Text("[{sys_id}]", 18)] }

Responses ==
    { [status_code |-> s, decodable |-> b.decodable, json |-> b.json,
       text |-> b.text] : s \in Statuses, b \in Bodies }
    \cup {NoContent, Found, NotFound, ServerError}

HttpOutcomes == {Return(r) : r \in Responses} \cup {Raise("Read timed out")}

ToolInit ==
    /\ LoopInit
    /\ env = EnvVars /\ boot = "ready" /\ startupCalls = 2
    /\ ui = "cli"
    /\ t_name \in ToolNames
    /\ t_input \in ToolInputs
    /\ t_net \in HttpOutcomes
    /\ t_sent = NoRequest
    /\ t_out = NotRun
    /\ h_resp = NoContent
    /\ h_out = NotRun

ExecuteTool ==
    /\ t_out = NotRun
    /\ t_out' = execute_tool(t_name, t_input, t_net)
    /\ t_sent' = _dispatch(t_name, t_input, t_net).sent
    /\ UNCHANGED <<loopVars, t_name, t_input, t_net, h_resp, h_out>>

ToolNext == ExecuteTool

SpecTools == ToolInit /\ [][ToolNext]_vars

(***************************************************************************)
(* The dispatcher's optional parameters: a catalog tool is drawn with all   *)
(* its required parameters and any choice of the parameters that declare a *)
(* default.                                                                *)
(***************************************************************************)
RequiredInput ==
    [table |-> Str("incident"), sys_id |-> Str("a1"),
     data |-> Obj([short_description |-> Str("x")]),
     search_term |-> Str("inc")]

OptionalKeys == {"limit", "offset", "display_value", "input_display_value"}

OptionalInputs ==
    { [limit |-> l, offset |-> Num(7), display_value |-> d,
       input_display_value |-> Bool(TRUE)] :
      l \in {Num(5), Num(2000)}, d \in {Bool(TRUE), Bool(FALSE)} }

DefaultsInputs ==
    { [k \in DOMAIN RequiredInput \cup K |->
          IF k \in K THEN f[k] ELSE RequiredInput[k]] :
      K \in SUBSET OptionalKeys, f \in OptionalInputs }

DefaultsInit ==
    /\ LoopInit
    /\ env = EnvVars /\ boot = "ready" /\ startupCalls = 2
    /\ ui = "cli"
    /\ t_name \in { TOOL_DEFINITIONS[i].name : i \in DOMAIN TOOL_DEFINITIONS }
    /\ t_input \in DefaultsInputs
    /\ t_net \in {Return(Found), Return(NoContent), Raise("Read timed out")}
    /\ t_sent = NoRequest
    /\ t_out = NotRun
    /\ h_resp = NoContent
    /\ h_out = NotRun

SpecDefaults == DefaultsInit /\ [][ToolNext]_vars

(***************************************************************************)
(* _handle_response on its own: a response is drawn and normalised.        *)
(***************************************************************************)
HttpInit ==
    /\ LoopInit
    /\ env = EnvVars /\ boot = "ready" /\ startupCalls = 2
    /\ t_name = ""
    /\ t_input = <<>>
    /\ t_net = Raise("")
    /\ t_sent = NoRequest
    /\ t_out = NotRun
    /\ h_resp \in Responses
    /\ h_out = NotRun

HandleResponse ==
    /\ h_out = NotRun
    /\ h_out' = _handle_response(h_resp)
    /\ UNCHANGED <<loopVars, t_name, t_input, t_net, t_sent, t_out, h_resp>>

HttpNext == HandleResponse

SpecHttp == HttpInit /\ [][HttpNext]_vars

(***************************************************************************)
(* Properties of the agent loop.                                           *)
(***************************************************************************)
\* the content blocks of a message (none for a plain text)
BlocksOf(m) == IF "arr" \in DOMAIN m.content THEN m.content.arr ELSE <<>>

\* the identifiers of the tool-invocation blocks of a history
ToolUseIds(h) ==
    UNION { { BlocksOf(h[i])[j].id :
                j \in { k \in DOMAIN BlocksOf(h[i]) :
                          BlocksOf(h[i])[k].type = "tool_use" } } :
            i \in DOMAIN h }

\* the places in h of the tool-result blocks carrying the identifier
ResultsOf(h, id) ==
    UNION { { <<i, j>> :
                j \in { k \in DOMAIN BlocksOf(h[i]) :
                          /\ BlocksOf(h[i])[k].type = "tool_result"
                          /\ BlocksOf(h[i])[k].tool_use_id = id } } :
            i \in DOMAIN h }

\* the tool-invocation blocks of a content, in order
ToolUses(content) == SelectSeq(content, LAMBDA b : b.type = "tool_use")
IdsOf(blocks) == [i \in 1..Len(blocks) |-> blocks[i].id]
ResultIds(blocks) == [i \in 1..Len(blocks) |-> blocks[i].tool_use_id]
Execs(evs) == SelectSeq(evs, LAMBDA e : e.ev = "exec")

\* a model call is outstanding
AtModelCall == pc = "await"

\* C1: in one invocation of the loop the model is called at most 50 times,
\* whatever the responses are.
C1_AtMostFiftyModelCalls == modelCalls <= 50

\* a turn in which every one of 50 responses asked for tools, in either loop
C1_Witness == modelCalls = 50 /\ exit = "cap" /\ pc = "idle"

\* C2: at every model call every tool-invocation block of the history has
\* exactly one tool-result block with its identifier in the history,
\* whatever stop signal its response had.
C2_EveryRequestAnswered ==
    AtModelCall =>
        \A id \in ToolUseIds(history) : Cardinality(ResultsOf(history, id)) = 1

\* C3: a response with stop signal tool_use and N tool-invocation blocks
\* leads to exactly N calls of execute_tool, in the blocks' order, and to one
\* appended message of exactly N tool-result blocks carrying the blocks'
\* identifiers in the same order.
C3_DispatchInOrder ==
    /\ pc = "tools" =>
         LET done == IdsOf(ToolUses(SubSeq(response.content, 1, idx - 1)))
         IN  /\ IdsOf(Execs(events)) = done
             /\ ResultIds(tool_results) = done
    /\ (pc = "loop" /\ stops # <<>>) =>
         LET want == IdsOf(ToolUses(response.content))
             last == history[Len(history)]
         IN  /\ response.stop_reason = "tool_use"
             /\ IdsOf(Execs(events)) = want
             /\ Len(history) = base + 1 + 2 * Len(stops)
             /\ history[Len(history) - 1] =
                    Message("assistant", Arr(response.content))
             /\ last.role = "user"
             /\ Len(BlocksOf(last)) = Len(want)
             /\ \A k \in DOMAIN BlocksOf(last) :
                    BlocksOf(last)[k].type = "tool_result"
             /\ ResultIds(BlocksOf(last)) = want

\* the results of a response with two tool requests have been appended
C3_Witness ==
    /\ pc = "loop" /\ stops # <<>>
    /\ Len(ToolUses(response.content)) = 2
    /\ Len(BlocksOf(history[Len(history)])) = 2

Succeeds(block, net) ==
    /\ \A k \in {"table", "sys_id"} : k \in DOMAIN block.input
    /\ ~net.raised
    /\ net.value.status_code \in {200, 201, 204}

\* C6: no outcome of a tool call ends the loop: success, a success=false
\* result and a fault raised during the call all become the content of the
\* request's tool-result block, the rest of the batch is executed, and the
\* loop goes on.
C6_ToolOutcomeIsData ==
    LET ex == Execs(events)
    IN  ex # <<>> =>
          /\ pc \in {"tools", "loop"} \/ exit = "cap"
          /\ Len(tool_results) = Len(ex)
          /\ \A i \in DOMAIN ex :
               LET blk == ToolUses(response.content)[i]
                   res == tool_results[i].content.json_text
               IN  /\ tool_results[i].tool_use_id = ex[i].id
                   /\ blk.id = ex[i].id
                   /\ res.success = Succeeds(blk, ex[i].net)
                   /\ ~res.success => "error" \in DOMAIN res
                   /\ (ex[i].net.raised /\ "sys_id" \in DOMAIN blk.input)
                        => res.error = Str(ex[i].net.exc)
          /\ pc = "loop" => Len(ex) = Len(ToolUses(response.content))

\* the model is called again after a batch whose first request lacked a
\* parameter and whose second request met a transport fault
C6_Witness ==
    /\ pc = "await" /\ modelCalls = 2
    /\ LET last == BlocksOf(history[Len(history)])
       IN  /\ Len(last) = 2
           /\ last[1].content.json_text = [success |-> FALSE, error |-> Str("'sys_id'")]
           /\ last[2].content.json_text =
                  [success |-> FALSE, error |-> Str("Read timed out")]

LastStop == IF stops = <<>> THEN "none" ELSE stops[Len(stops)]

\* C7: a response with stop signal end_turn ends the loop once it is
\* appended: no model call and no dispatch follows in the turn, and the
\* history that ends with that assistant message is what the turn leaves.
C7_EndTurnEndsLoop ==
    /\ \A k \in 1..(Len(stops) - 1) : stops[k] # "end_turn"
    /\ LastStop = "end_turn" =>
         /\ exit = "end_turn"
         /\ pc \in {"idle", "finish"}
         /\ modelCalls = Len(stops)
         /\ Execs(events) = <<>>
         /\ Len(history) = base + 2 * Len(stops)
         /\ history[Len(history)] = Message("assistant", Arr(response.content))

\* a turn ended by end_turn after a pass that ran tools
C7_Witness == LastStop = "end_turn" /\ Len(stops) = 2 /\ pc = "idle"

\* C8: a response whose stop signal is neither end_turn nor tool_use ends
\* the loop without another model call, and a warning is surfaced to the
\* caller, in the CLI loop and in the GUI loop.
C8_UnexpectedStopWarns ==
    LastStop \notin {"none", "end_turn", "tool_use"} =>
        /\ pc \in {"idle", "finish"}
        /\ modelCalls = Len(stops)
        /\ warnings >= 1

\* C9: every response received is appended as one assistant message,
\* whatever its stop signal and content: the assistant messages appended in
\* a turn are as many as the model calls that returned.
C9_EveryResponseAppended ==
    /\ Cardinality({ i \in (base + 1)..Len(history) :
                       history[i].role = "assistant" }) = Len(stops)
    /\ stops # <<>> =>
         \E i \in {Len(history) - 1, Len(history)} :
             history[i] = Message("assistant", Arr(response.content))

\* a response without content blocks has been appended
C9_Witness ==
    /\ stops # <<>> /\ response.content = <<>>
    /\ history[Len(history)] = Message("assistant", Arr(<<>>))

\* C10: when the first response is text only with stop signal end_turn, the
\* invocation makes exactly one model call, dispatches nothing and appends
\* exactly two messages: the user's, then the assistant's.
C10_ImmediateCompletion ==
    (/\ Len(history) >= base + 2
     /\ stops # <<>> /\ stops[1] = "end_turn"
     /\ ToolUses(BlocksOf(history[base + 2])) = <<>>) =>
        /\ modelCalls = 1
        /\ Execs(events) = <<>>
        /\ Len(history) = base + 2
        /\ history[base + 1].role = "user"
        /\ history[base + 2] = Message("assistant", Arr(Final.content))
        /\ pc \in {"idle", "finish"}

\* the turn is over after one text-only response
C10_Witness ==
    /\ stops = <<"end_turn">> /\ pc = "idle" /\ response = Final
    /\ Len(history) = base + 2

(***************************************************************************)
(* Properties of the dispatcher, under SpecTools.                          *)
(***************************************************************************)
CatalogNames == { TOOL_DEFINITIONS[i].name : i \in DOMAIN TOOL_DEFINITIONS }
Definition(name) ==
    TOOL_DEFINITIONS[CHOOSE i \in DOMAIN TOOL_DEFINITIONS :
                         TOOL_DEFINITIONS[i].name = name]

\* the first required parameter the input lacks ("" if it lacks none)
RECURSIVE FirstMissing(_, _)
FirstMissing(required, inp) ==
    IF required = <<>> THEN ""
    ELSE IF Head(required) \notin DOMAIN inp THEN Head(required)
    ELSE FirstMissing(Tail(required), inp)

Missing ==
    IF t_name \in CatalogNames
    THEN FirstMissing(Definition(t_name).required, t_input)
    ELSE ""

\* C4: execute_tool never raises: for every tool name, input mapping and
\* adapter outcome it returns one serialized text; when a parameter is
\* missing or a fault is raised the text is a result with success=false and
\* the fault's message as error.
C4_ExecuteToolNeverRaises ==
    t_out # NotRun =>
        /\ ~t_out.raised
        /\ DOMAIN t_out.value = {"json_text"}
        /\ "success" \in DOMAIN t_out.value.json_text
        /\ Missing # "" =>
             t_out.value.json_text =
                 [success |-> FALSE, error |-> Str(KeyErrorStr(Missing))]
        /\ (t_name \in CatalogNames /\ Missing = "" /\ t_net.raised) =>
             /\ t_out.value.json_text.success = FALSE
             /\ t_out.value.json_text.error \in
                    {Str(t_net.exc), Str("TypeError")}
             /\ t_sent # NoRequest =>
                    t_out.value.json_text =
                        [success |-> FALSE, error |-> Str(t_net.exc)]

\* update_record without its data parameter
C4_Witness ==
    /\ t_out # NotRun /\ t_name = "update_record"
    /\ DOMAIN t_input = {"table", "sys_id"}
    /\ t_out.value.json_text = [success |-> FALSE, error |-> Str("'data'")]

(***************************************************************************)
(* Further properties of the agent loop.                                   *)
(***************************************************************************)
\* C11: when the first response is one tool request with stop signal
\* tool_use and the second has stop signal end_turn, the invocation makes
\* exactly two model calls and one call of execute_tool, and appends exactly
\* four messages: user, assistant with the request, tool-result, assistant.
C11_OneToolThenCompletion ==
    (/\ Len(stops) >= 2 /\ stops[1] = "tool_use" /\ stops[2] = "end_turn"
     /\ Len(ToolUses(BlocksOf(history[base + 2]))) = 1) =>
        /\ stops = <<"tool_use", "end_turn">>
        /\ modelCalls = 2
        /\ dispatched = 1
        /\ pc \in {"idle", "finish"}
        /\ Len(history) = base + 4
        /\ history[base + 1].role = "user"
        /\ "str" \in DOMAIN history[base + 1].content
        /\ history[base + 2].role = "assistant"
        /\ history[base + 3].role = "user"
        /\ Len(BlocksOf(history[base + 3])) = 1
        /\ BlocksOf(history[base + 3])[1].type = "tool_result"
        /\ ResultIds(BlocksOf(history[base + 3])) =
               IdsOf(ToolUses(BlocksOf(history[base + 2])))
        /\ history[base + 4] = Message("assistant", Arr(response.content))

\* run_agent has returned after one tool request and a completion
C11_Witness ==
    /\ ui = "cli" /\ pc = "idle" /\ exit = "end_turn"
    /\ stops = <<"tool_use", "end_turn">>
    /\ dispatched = 1 /\ modelCalls = 2
    /\ Len(history) = base + 4

\* C18: on one history at most one invocation of the loop is running at any
\* moment, so that the calls of the loop, which it makes one after the
\* other, are never outstanding together; in the GUI a running worker
\* implies the busy flag, under which _send starts no other.
C18_OneCallAtATime ==
    /\ workers \in {0, 1}
    /\ workers = 1 <=> pc \in {"start", "loop", "await", "tools"}
    /\ (ui = "gui" /\ (workers = 1 \/ pc = "finish")) => busy
    /\ AtModelCall => workers = 1

\* the worker of a second GUI turn is waiting for the model
C18_Witness ==
    /\ ui = "gui" /\ turns = 2 /\ pc = "await" /\ busy /\ workers = 1

IsPrefix(p, q) == Len(p) <= Len(q) /\ SubSeq(q, 1, Len(p)) = p

\* C19: within a turn every step leaves the messages already in the history
\* as they are, and each model call after the first of a turn is passed the
\* whole history, which is the sequence passed to the previous call
\* followed by that call's assistant message and one tool-result message.
C19_AppendOnlyFullHistory ==
    [][/\ (pc # "idle" \/ pc' # "idle") => IsPrefix(history, history')
       /\ (pc = "loop" /\ pc' = "await") =>
            /\ sent' = history
            /\ modelCalls >= 1 =>
                 /\ Len(history) = Len(sent) + 2
                 /\ IsPrefix(sent, history)
                 /\ history[Len(sent) + 1] =
                        Message("assistant", Arr(response.content))
                 /\ history[Len(sent) + 2].role = "user"
                 /\ \A k \in DOMAIN BlocksOf(history[Len(sent) + 2]) :
                        BlocksOf(history[Len(sent) + 2])[k].type = "tool_result"
                 /\ ResultIds(BlocksOf(history[Len(sent) + 2])) =
                        IdsOf(ToolUses(response.content))]_vars

\* where the loop is in its pass
Stage ==
    CASE pc = "start" -> 0
      [] pc = "await" -> 1
      [] pc = "tools" -> 2
      [] pc = "loop" -> 3
      [] pc = "finish" -> 4
      [] OTHER -> 5

\* a step takes the loop forward: to a later pass, or to a later stage of
\* the pass, or to a later block of the response
Advances ==
    \/ iteration' > iteration
    \/ iteration' = iteration /\ Stage' > Stage
    \/ iteration' = iteration /\ Stage' = Stage /\ idx' > idx

\* a turn that has started comes to its end
EveryTurnEnds == (pc # "idle") ~> (pc = "idle")

\* C20: every invocation terminates: while a turn is running some step of
\* it can be taken, every step takes the loop forward, and there are at
\* most 50 passes of as many blocks as the response has; and when every one
\* of the 50 responses had stop signal tool_use the loop ends after the
\* 50th pass as a normal return of the history: no fault, no warning, and
\* in the GUI the same callback as after a completion.
C20_Terminates ==
    /\ [](pc # "idle" => ENABLED LoopStep)
    /\ [][pc # "idle" => Advances]_vars
    /\ [](iteration <= 50 /\ (pc = "tools" => idx <= Len(response.content) + 1))
    /\ []((/\ Len(stops) = 50 /\ pc \in {"idle", "finish"}
           /\ \A k \in DOMAIN stops : stops[k] = "tool_use") =>
            /\ exit = "cap"
            /\ modelCalls = 50
            /\ warnings = 0
            /\ Len(history) = base + 101
            /\ history[Len(history)].role = "user"
            /\ ui = "gui" /\ pc = "finish" => callback = "on_done")

\* run_agent has returned after 50 passes of tool requests
C20_Witness ==
    /\ ui = "cli" /\ pc = "idle" /\ exit = "cap" /\ Len(stops) = 50
    /\ Len(history) = base + 101

(***************************************************************************)
(* Further properties of the dispatcher, under SpecTools.                  *)
(***************************************************************************)
\* C12: for a tool name that is not in TOOL_DEFINITIONS execute_tool makes
\* no request, does not raise, and returns a result with success=false
\* whose error is "Unknown tool: " followed by the name.
C12_UnknownToolIsFailure ==
    (t_out # NotRun /\ t_name \notin CatalogNames) =>
        /\ t_sent = NoRequest
        /\ ~t_out.raised
        /\ t_out.value.json_text.success = FALSE
        /\ t_out.value.json_text.error = Str("Unknown tool: " \o t_name)

\* the tool drop_table has been asked for
C12_Witness ==
    /\ t_out # NotRun /\ t_name = "drop_table" /\ t_sent = NoRequest
    /\ t_out.value.json_text.error = Str("Unknown tool: drop_table")

\* a result is a success with data and no error, or a failure with an
\* error and no data
IsSuccess(res) ==
    /\ "success" \in DOMAIN res /\ res.success = TRUE
    /\ "data" \in DOMAIN res /\ "error" \notin DOMAIN res
IsFailure(res) ==
    /\ "success" \in DOMAIN res /\ res.success = FALSE
    /\ "error" \in DOMAIN res /\ "data" \notin DOMAIN res

\* C13: every result that execute_tool hands back, the normalised response
\* of any status and body and the failures made up by the dispatcher alike,
\* is either a success with a data field and no error field or a failure
\* with an error field and no data field, never both and never neither.
C13_SuccessXorFailure ==
    t_out # NotRun =>
        LET res == t_out.value.json_text
        IN  IsSuccess(res) # IsFailure(res)

\* an undecodable HTTP 500 has been normalised
C13_Witness ==
    /\ t_out # NotRun /\ t_sent # NoRequest /\ t_net = Return(ServerError)
    /\ IsFailure(t_out.value.json_text)

\* the limit argument of the query a tool makes
LimitOf(name, inp) ==
    Get(inp, "limit", Definition(name).defaults["limit"])

\* C17: the sysparm_limit of a query sent to the transport layer is 1000
\* when the limit argument is greater than 1000 and the limit argument
\* itself when it is at most 1000.
C17_LimitClamped ==
    (/\ t_out # NotRun /\ t_sent # NoRequest
     /\ t_name \in {"query_records", "search_tables", "get_update_sets"}) =>
        LET limit == LimitOf(t_name, t_input)
        IN  /\ limit.num > 1000 => t_sent.sysparm_limit = Num(1000)
            /\ limit.num <= 1000 => t_sent.sysparm_limit = limit

\* query_records has been asked for 2000 records
C17_Witness ==
    /\ t_out # NotRun /\ t_name = "query_records"
    /\ "limit" \in DOMAIN t_input /\ t_input["limit"] = Num(2000)
    /\ t_sent # NoRequest /\ t_sent.sysparm_limit = Num(1000)

(***************************************************************************)
(* Properties of _handle_response, under SpecHttp.                         *)
(***************************************************************************)
\* the body decodes to an envelope whose error field is an object
HasErrorObject(resp) ==
    /\ resp.decodable /\ IsDict(resp.json)
    /\ "error" \in DOMAIN resp.json.obj
    /\ IsDict(resp.json.obj["error"])

\* C14: for a status other than 200, 201 and 204 the result is a failure
\* with the numeric status code; error and detail are the message and the
\* detail of the body's error object when it has one, and otherwise the raw
\* status and the first 500 characters of the response text.
C14_FailureFromEnvelopeOrStatus ==
    (h_out # NotRun /\ h_resp.status_code \notin {200, 201, 204}) =>
        /\ h_out.success = FALSE
        /\ h_out.status_code = Num(h_resp.status_code)
        /\ IF HasErrorObject(h_resp)
           THEN LET err == h_resp.json.obj["error"].obj
                IN  /\ "message" \in DOMAIN err => h_out.error = err["message"]
                    /\ "detail" \in DOMAIN err => h_out.detail = err["detail"]
           ELSE /\ h_out.error = Str(HttpStr(h_resp.status_code))
                /\ h_out.detail = Prefix(h_resp.text, SnippetLen)

\* C15: for status 200 and 201 the result is a success whose data is the
\* result field of the decoded body when it has one, the decoded body when
\* it has none, and the response text when the body cannot be decoded.
C15_SuccessData ==
    (h_out # NotRun /\ h_resp.status_code \in {200, 201}) =>
        /\ h_out.success = TRUE
        /\ h_out.data =
             IF ~h_resp.decodable THEN h_resp.text
             ELSE IF IsDict(h_resp.json) /\ "result" \in DOMAIN h_resp.json.obj
             THEN h_resp.json.obj["result"]
             ELSE h_resp.json

\* C16: for status 204 the result is a success whose data is a payload
\* that is not empty, whatever the body is.
C16_NoContentAcknowledged ==
    (h_out # NotRun /\ h_resp.status_code = 204) =>
        /\ IsSuccess(h_out)
        /\ IsDict(h_out.data)
        /\ Truthy(h_out.data)
        /\ \A k \in DOMAIN h_out.data.obj : Truthy(h_out.data.obj[k])

\* a 204 that came with a body has been normalised
C16_Witness ==
    /\ h_out # NotRun /\ h_resp.status_code = 204 /\ h_resp.decodable
    /\ h_out.success = TRUE

(***************************************************************************)
(* Properties of what the loop surfaces and dispatches.                    *)
(***************************************************************************)
\* the non-empty texts of the text blocks of a content, in order
ResponseTexts(content) ==
    LET blocks == SelectSeq(content, LAMBDA b : b.type = "text" /\ b.text # "")
    IN  [i \in 1..Len(blocks) |-> blocks[i].text]

\* C21: once the response of a pass is received, and before any tool of
\* the pass is dispatched and before the next model call, its texts have
\* been surfaced, in order: they are the first things the pass did, and
\* nothing is surfaced later.
C21_TextsSurfacedAtOnce ==
    (stops # <<>> /\ Len(stops) = modelCalls) =>
        LET texts == ResponseTexts(response.content)
        IN  /\ Len(events) >= Len(texts)
            /\ \A i \in 1..Len(texts) :
                   events[i] = [ev |-> "text", text |-> texts[i]]
            /\ \A i \in (Len(texts) + 1)..Len(events) : events[i].ev # "text"

\* the text of a response that also asks for tools is out before the first
\* tool is dispatched
C21_Witness ==
    /\ pc = "tools" /\ idx = 1 /\ Execs(events) = <<>>
    /\ ToolUses(response.content) # <<>>
    /\ events = <<[ev |-> "text", text |-> "Deleting."]>>

\* the value the dispatcher is to pass for parameter p: the one given in the
\* input, else the default the catalog entry declares
Passed(p) ==
    IF p \in DOMAIN t_input THEN t_input[p] ELSE Definition(t_name).defaults[p]

Flag(v) == IF Truthy(v) THEN <<Str("true")>> ELSE <<>>

\* C22: for every catalog tool and every parameter that declares a default,
\* the dispatcher passes the declared default to the adapter operation when
\* the input omits the parameter and the given value when the input has it:
\* the request the adapter sends carries that value (the limit through the
\* adapter's cap of 1000, a display flag as "true" or absent).
C22_DeclaredDefaultsApplied ==
    (t_out # NotRun /\ t_name \in CatalogNames /\ Missing = "") =>
        LET defaults == DOMAIN Definition(t_name).defaults
        IN  /\ t_sent # NoRequest
            /\ "limit" \in defaults =>
                   t_sent.sysparm_limit = Num(Min(Passed("limit").num, MaxLimit))
            /\ "offset" \in defaults =>
                   t_sent.sysparm_offset = Passed("offset")
            /\ "display_value" \in defaults =>
                   t_sent.sysparm_display_value = Flag(Passed("display_value"))
            /\ "input_display_value" \in defaults =>
                   t_sent.sysparm_input_display_value =
                       Flag(Passed("input_display_value"))

C22_Witness ==
    /\ t_out # NotRun /\ t_name = "query_records"
    /\ DOMAIN t_input \cap OptionalKeys = {"display_value"}
    /\ t_input["display_value"] = Bool(TRUE)
    /\ t_sent.sysparm_limit = Num(10) /\ t_sent.sysparm_offset = Num(0)
    /\ t_sent.sysparm_display_value = <<Str("true")>>

\* C23: when any of the four environment values is absent at startup the
\* error is reported and the program goes no further, in the CLI and in the
\* GUI: startup ends in the reported configuration error, no request is ever
\* made of the remote instance, no model call is made, no tool is dispatched
\* and no turn is begun.
C23_MissingEnvStopsStartup ==
    env # EnvVars =>
        /\ boot \in {"new", "missing_env"}
        /\ startupCalls = 0
        /\ turns = 0 /\ calls = 0 /\ modelCalls = 0 /\ dispatched = 0
        /\ workers = 0 /\ ~busy
        /\ pc = "idle" /\ history = <<>>
        /\ boot = "missing_env" => ~ENABLED Next

C23_Witness ==
    /\ ui = "gui"
    /\ env = EnvVars \ {"ANTHROPIC_API_KEY"}
    /\ boot = "missing_env"

\* the first model call of the turn that follows the reset
FirstCallAfterReset ==
    AtModelCall /\ modelCalls = 1 /\ clears > 0 /\ turns = resetTurn + 1

\* C24: after the reset command (CLI 'clear', GUI 'Clear chat') the
\* Conversation State is empty: the first model call of the next turn
\* receives a message sequence that contains only that turn's user message.
C24_ResetEmptiesState ==
    FirstCallAfterReset =>
        /\ Len(sent) = 1
        /\ sent[1].role = "user"
        /\ sent[1].content \in UserInputs

Alternates(h) ==
    /\ h # <<>>
    /\ h[1].role = "user"
    /\ h[Len(h)].role = "user"
    /\ \A i \in 1..(Len(h) - 1) : h[i].role # h[i + 1].role

\* C25: at every model call, over any sequence of turns on the same history
\* (turns ended at the 50-pass cap or by a fault of a model call included),
\* the messages sent alternate strictly between user and assistant, starting
\* and ending with user.
C25_RolesAlternate == AtModelCall => Alternates(sent)

\* the message the loop appends after the tool phase: a user message whose
\* content is the list of tool-result blocks
IsToolResultMessage(m) == m.role = "user" /\ "arr" \in DOMAIN m.content

\* every tool-result block of h answers a tool-invocation block of an
\* earlier message of h
ResultsAnswered(h) ==
    \A i \in DOMAIN h : \A j \in DOMAIN BlocksOf(h[i]) :
        BlocksOf(h[i])[j].type = "tool_result" =>
            BlocksOf(h[i])[j].tool_use_id \in ToolUseIds(SubSeq(h, 1, i - 1))

\* C26: in the GUI, 'Clear chat' pressed at any moment, also while an
\* AgentWorker runs on the shared history, never leads to a model call
\* whose message sequence starts with an assistant message or with a
\* tool-result message, or holds a tool-result block without the
\* tool-invocation block it answers.
C26_ClearKeepsCallsWellFormed ==
    (ui = "gui" /\ AtModelCall /\ sent # <<>>) =>
        /\ sent[1].role = "user"
        /\ ~IsToolResultMessage(sent[1])
        /\ ResultsAnswered(sent)

\* the execute_tool calls of the turn, as the script recorded them
ScriptExecs ==
    LET rs == SelectSeq(script, LAMBDA e : e.kind = "result")
    IN  [i \in 1..Len(rs) |-> [name |-> rs[i].name, input |-> rs[i].input]]

TurnEnded == turns > 0 /\ workers = 0

\* C27: the CLI loop and the GUI loop are equivalent: started on equal
\* histories with the same user content and given the same model responses
\* and tool results, they make the same number of model calls and the same
\* sequence of execute_tool calls and leave equal histories, for every stop
\* signal, after a fault and at the 50-pass cap.  Whichever loop ran the
\* turn, what it did and left is what run_agent does with the turn's script.
C27_LoopsEquivalent ==
    TurnEnded =>
        LET r == RunAgent(SubSeq(history, 1, base), history[base + 1].content,
                          script)
        IN  /\ r.complete /\ r.rest = <<>>
            /\ r.history = history
            /\ r.calls = modelCalls
            /\ r.execs = ScriptExecs

C27_Witness ==
    /\ ui = "gui" /\ TurnEnded /\ exit = "cap"
    /\ modelCalls = max_iterations
    /\ Len(ScriptExecs) >= max_iterations

Posted == {"on_done", "on_error"}

\* C28: in the GUI every started AgentWorker ends by invoking exactly one
\* of on_done and on_error, exactly once: a running worker has posted
\* nothing, a worker ends in the very step that posts its one callback, and
\* nothing else posts one.  The busy flag set by _send is then cleared:
\* while it is set some step of the worker or of the Tk loop can be taken,
\* every step goes forward, and the flag is cleared by the callback alone,
\* after which sending is possible again.  While busy is set no worker is
\* started and no turn begun; the history grows by the worker's appends
\* only.
C28_WorkerEndsWithOneCallback ==
    /\ [](ui = "gui" =>
            /\ workers \in {0, 1}
            /\ busy <=> pc # "idle"
            /\ workers = 1 <=> pc \in {"start", "loop", "await", "tools"}
            /\ workers = 1 => callback = "none"
            /\ pc = "finish" <=> callback \in Posted
            /\ busy => ENABLED LoopStep
            /\ (~busy /\ turns < MaxTurns) => ENABLED App_send)
    /\ [][ui = "gui" =>
            /\ workers' < workers <=> (callback = "none" /\ callback' \in Posted)
            /\ callback' # callback =>
                   \/ callback = "none" /\ callback' \in Posted
                   \/ callback \in Posted /\ callback' = "none" /\ busy /\ ~busy'
            /\ busy' # busy => (busy' <=> workers' = workers + 1)
            /\ busy => /\ Advances \/ ~busy'
                       /\ turns' = turns /\ workers' <= workers
                       /\ workers = 0 => history' = history]_vars

\* the second worker of the session has ended with on_error, which the Tk
\* loop has yet to run
C28_Witness ==
    /\ ui = "gui" /\ turns = 2 /\ busy /\ workers = 0
    /\ pc = "finish" /\ callback = "on_error"

\* the request by which each adapter operation is known: its method and
\* the path it is sent to
IsRequestOf(name, req, inp) ==
    LET table(t) == <<Str("/api/now/table/"), t>>
        record(t, id) == <<Str("/api/now/table/"), t, Str("/"), id>>
    IN  CASE name = "query_records" ->
               req.method = "GET" /\ req.path = table(inp["table"])
          [] name = "get_record" ->
               req.method = "GET" /\ req.path = record(inp["table"], inp["sys_id"])
          [] name = "create_record" ->
               req.method = "POST" /\ req.path = table(inp["table"])
                   /\ req.json = inp["data"]
          [] name = "update_record" ->
               req.method = "PATCH" /\ req.path = record(inp["table"], inp["sys_id"])
                   /\ req.json = inp["data"]
          [] name = "delete_record" ->
               req.method = "DELETE" /\ req.path = record(inp["table"], inp["sys_id"])
          [] name = "get_table_schema" ->
               req.method = "GET" /\ req.path = table(Str("sys_dictionary"))
          [] name = "search_tables" ->
               req.method = "GET" /\ req.path = table(Str("sys_db_object"))
          [] name = "get_update_sets" ->
               req.method = "GET" /\ req.path = table(Str("sys_update_set"))
          [] name = "get_application_scopes" ->
               req.method = "GET" /\ req.path = table(Str("sys_scope"))
          [] OTHER -> FALSE

\* C29: the tool catalog and the dispatcher agree: the names in
\* TOOL_DEFINITIONS are pairwise distinct, and for every name of the catalog
\* with an input that has all the parameters the definition lists as
\* required, _dispatch calls the one adapter operation of that name (its
\* request is the one sent, unless the operation raised on a limit that is
\* no number before sending) and the result is neither the 'Unknown tool'
\* failure nor the failure of a missing parameter.
C29_CatalogMatchesDispatcher ==
    /\ Cardinality(CatalogNames) = Len(TOOL_DEFINITIONS)
    /\ (t_out # NotRun /\ t_name \in CatalogNames /\ Missing = "") =>
           LET res == t_out.value.json_text
           IN  /\ ~t_out.raised
               /\ IF t_sent = NoRequest
                  THEN /\ "limit" \in DOMAIN t_input /\ ~IsNum(t_input["limit"])
                       /\ res.error = Str("TypeError")
                  ELSE IsRequestOf(t_name, t_sent, t_input)
               /\ "error" \in DOMAIN res =>
                      /\ res.error # Str("Unknown tool: " \o t_name)
                      /\ \A k \in InputKeys : res.error # Str(KeyErrorStr(k))

C29_Witness ==
    /\ t_out # NotRun /\ t_name = "update_record"
    /\ DOMAIN t_input = {"table", "sys_id", "data"}
    /\ t_sent.method = "PATCH"
    /\ IsSuccess(t_out.value.json_text)

\* the identifiers of the blocks execute_tool was called for in this pass
ExecIds(evs) == { Execs(evs)[i].id : i \in DOMAIN Execs(evs) }

\* the response asked for tools and named none
EmptyToolRequest ==
    /\ stops # <<>> /\ Len(stops) = modelCalls
    /\ response.stop_reason = "tool_use"
    /\ ToolUses(response.content) = <<>>

\* C30: execute_tool is called only for the tool-invocation blocks of a
\* response whose stop signal is tool_use: the tool-invocation blocks of a
\* response with any other stop signal are never dispatched.  When a
\* response with stop signal tool_use has no tool-invocation block, nothing
\* is dispatched, a user message with an empty block list is appended, and
\* the loop goes on to the next model call.
C30_DispatchOnlyOnToolUse ==
    /\ [](/\ pc = "tools" => response.stop_reason = "tool_use"
          /\ Execs(events) # <<>> =>
                 /\ response.stop_reason = "tool_use"
                 /\ ExecIds(events) \subseteq
                        { b.id : b \in { response.content[i] :
                                           i \in { j \in DOMAIN response.content :
                                                     response.content[j].type = "tool_use" } } }
          /\ (stops # <<>> /\ Len(stops) = modelCalls
                 /\ response.stop_reason # "tool_use") =>
                 /\ Execs(events) = <<>>
                 /\ pc \in {"idle", "finish"}
          /\ (EmptyToolRequest /\ pc = "loop") =>
                 /\ Execs(events) = <<>>
                 /\ history[Len(history)] = Message("user", Arr(<<>>))
                 /\ history[Len(history) - 1] = Message("assistant", Arr(response.content))
                 /\ iteration < max_iterations =>
                        ENABLED (run_agent_create \/ Worker_create))
    /\ [][/\ dispatched' > dispatched =>
                 /\ dispatched' = dispatched + 1
                 /\ pc = "tools" /\ response.stop_reason = "tool_use"
                 /\ response.content[idx].type = "tool_use"
          /\ (EmptyToolRequest /\ pc = "tools") =>
                 /\ dispatched' = dispatched
                 /\ pc' = "loop"]_vars

\* the call that follows a tool request without tools: nothing was
\* dispatched and the last message sent is the empty list of results
C30_Witness ==
    /\ AtModelCall /\ modelCalls = 2 /\ dispatched = 0
    /\ stops = <<"tool_use">>
    /\ sent[Len(sent)] = Message("user", Arr(<<>>))

====
